---- MODULE Spec2Model ----
(***************************************************************************)
(* Differential-drive motor controller for a two-wheeled Pico robot:       *)
(* FrontDriveRobot (two_wheel_front_drive.py) and RearDriveRobot           *)
(* (two_wheel_rear_drive.py).  The model follows the controller pin write  *)
(* by pin write: every duty_u16 call is one step, so the states between    *)
(* the two writes of one set_motor call are states of the model.           *)
(***************************************************************************)
EXTENDS Integers, Sequences, FiniteSets, TLC

(***************************************************************************)
(* Bounds of the model.  Speeds are sampled from -MaxSpeed..MaxSpeed at    *)
(* every multiple of SpeedStep, together with the landmark values below.   *)
(***************************************************************************)
MaxSpeed == 150

SpeedStep == 50

(***************************************************************************)
(* Program constants.                                                      *)
(***************************************************************************)
max_speed == 65535

PwmFreq == 1000

ClampLo == -100

ClampHi == 100

Percent == 100

(***************************************************************************)
(* Floating point.  `speed * turn_ratio` and `abs(speed) * max_speed / 100`*)
(* are float operations followed by int().  The width of a float is the    *)
(* build's: 53 significand bits under CPython (IEEE double), 24 under      *)
(* MicroPython on the Pico (IEEE single); both are modelled.  A float is   *)
(* [sign, mant, exp] with value sign * mant * 2^exp, where mant is a       *)
(* natural number of at most P bits.  Naturals that do not fit a machine   *)
(* word are kept as sequences of limbs in base 2^15, most significant      *)
(* first and without leading zeros (<<>> is 0), so every intermediate      *)
(* value is exact whatever the width.                                      *)
(***************************************************************************)
FloatFormats == {24, 53}

Abs(x) == IF x < 0 THEN -x ELSE x

Sign(x) == IF x < 0 THEN -1 ELSE IF x > 0 THEN 1 ELSE 0

Max(a, b) == IF a >= b THEN a ELSE b

Min(a, b) == IF a <= b THEN a ELSE b

RECURSIVE Pow2(_)
Pow2(n) == IF n = 0 THEN 1 ELSE 2 * Pow2(n - 1)

Base == Pow2(15)

\* The number of bits of a natural number that fits a word (0 for 0).
RECURSIVE BitLen(_)
BitLen(n) == IF n = 0 THEN 0 ELSE 1 + BitLen(n \div 2)

LimbBits == BitLen(Base) - 1

RECURSIVE Strip(_)
Strip(x) == IF x # <<>> /\ x[1] = 0 THEN Strip(Tail(x)) ELSE x

RECURSIVE ToBig(_)
ToBig(n) == IF n = 0 THEN <<>> ELSE Append(ToBig(n \div Base), n % Base)

RECURSIVE BigToNat(_)
BigToNat(x) ==
    IF x = <<>> THEN 0
    ELSE Base * BigToNat(SubSeq(x, 1, Len(x) - 1)) + x[Len(x)]

BigBitLen(x) ==
    IF x = <<>> THEN 0 ELSE LimbBits * (Len(x) - 1) + BitLen(x[1])

BigOdd(x) == x # <<>> /\ x[Len(x)] % 2 = 1

\* x * k for 0 < k <= Base, by long multiplication from the last limb.
RECURSIVE BigMulFrom(_, _, _, _)
BigMulFrom(x, i, k, carry) ==
    IF i = 0 THEN ToBig(carry)
    ELSE LET t == x[i] * k + carry
         IN  Append(BigMulFrom(x, i - 1, k, t \div Base), t % Base)

BigMulSmall(x, k) == BigMulFrom(x, Len(x), k, 0)

\* x \div d and x % d for 0 < d <= Base, by long division from the first limb.
RECURSIVE BigDivFrom(_, _, _, _)
BigDivFrom(x, i, d, rem) ==
    IF i > Len(x) THEN [quot |-> <<>>, rem |-> rem]
    ELSE LET t    == rem * Base + x[i]
             rest == BigDivFrom(x, i + 1, d, t % d)
         IN  [quot |-> <<t \div d>> \o rest.quot, rem |-> rest.rem]

BigDivSmall(x, d) ==
    LET r == BigDivFrom(x, 1, d, 0) IN [quot |-> Strip(r.quot), rem |-> r.rem]

RECURSIVE BigInc(_)
BigInc(x) ==
    IF x = <<>> THEN <<1>>
    ELSE IF x[Len(x)] + 1 < Base
         THEN Append(SubSeq(x, 1, Len(x) - 1), x[Len(x)] + 1)
         ELSE Append(BigInc(SubSeq(x, 1, Len(x) - 1)), 0)

\* x * 2^n.
BigShiftLeft(x, n) ==
    IF x = <<>> THEN <<>>
    ELSE BigMulSmall(x, Pow2(n % LimbBits)) \o [i \in 1..(n \div LimbBits) |-> 0]

\* x \div 2^n, and whether any of the bits shifted out was 1.
BigShiftRight(x, n) ==
    LET whole == Min(n \div LimbBits, Len(x))
        kept  == SubSeq(x, 1, Len(x) - whole)
        q     == BigDivSmall(kept, Pow2(n % LimbBits))
    IN  [quot   |-> q.quot,
         sticky |-> q.rem # 0 \/ (\E i \in (Len(x) - whole + 1)..Len(x) : x[i] # 0)]

FloatZero == [sign |-> 1, mant |-> <<>>, exp |-> 0]

\* Round-to-nearest, ties-to-even, of mant * 2^exp (plus, with sticky, a non-zero
\* fraction below the last bit of mant) to a significand of at most P bits.
RoundToP(P, sign, mant, exp, sticky) ==
    LET L == BigBitLen(mant)
    IN  IF L <= P
        THEN [sign |-> sign, mant |-> mant, exp |-> exp]
        ELSE LET n       == L - P
                 t       == BigShiftRight(mant, n - 1)
                 keep    == BigShiftRight(t.quot, 1).quot
                 guard   == BigOdd(t.quot)
                 below   == sticky \/ t.sticky
                 roundUp == guard /\ (below \/ BigOdd(keep))
             IN  [sign |-> sign,
                  mant |-> IF roundUp THEN BigInc(keep) ELSE keep,
                  exp  |-> exp + n]

\* The float nearest to num / den (0 < den <= Base): a float literal such as 0.3,
\* or the true division of two ints.
ToFloat(P, num, den) ==
    IF num = 0 THEN FloatZero
    ELSE LET K == P + LimbBits + 1
             q == BigDivSmall(BigShiftLeft(ToBig(Abs(num)), K), den)
         IN  RoundToP(P, Sign(num), q.quot, -K, q.rem # 0)

\* int * float: the int is converted exactly, the product is rounded once.
FloatMulInt(P, s, f) ==
    IF s = 0 \/ f.mant = <<>> THEN FloatZero
    ELSE RoundToP(P, Sign(s) * f.sign, BigMulSmall(f.mant, Abs(s)), f.exp, FALSE)

\* int(float): truncation toward zero.
IntOfFloat(f) ==
    IF f.exp >= 0
    THEN f.sign * BigToNat(BigShiftLeft(f.mant, f.exp))
    ELSE f.sign * BigToNat(BigShiftRight(f.mant, -f.exp).quot)

(***************************************************************************)
(* set_motor: the clamp, the duty and the two pin writes, in program order.*)
(***************************************************************************)
\* Faulty variants of the clamp: one bound left out.
Clamp_upper_only(speed) == Min(ClampHi, speed)

Clamp_lower_only(speed) == Max(ClampLo, speed)

\* speed = max(-100, min(100, speed))
Clamp(speed) == Max(ClampLo, Min(ClampHi, speed))

\* A faulty variant of the duty: the division done first, on integers.
Duty_div_first(P, speed) == (Abs(speed) \div Percent) * max_speed

\* duty = int(abs(speed) * self.max_speed / 100), of the clamped speed: an exact
\* int product, a true division that yields a float, then int().
Duty(P, speed) == IntOfFloat(ToFloat(P, Abs(speed) * max_speed, Percent))

Write(which, value) == [which |-> which, value |-> value]

\* A faulty variant of set_motor: the forward branch zeroes fwd_pin a second
\* time where it should zero rev_pin.
set_motor_same_pin(P, speed0) ==
    LET speed == Clamp(speed0)
        duty  == Duty(P, speed)
    IN  IF speed > 0 THEN <<Write("fwd", duty), Write("fwd", 0)>>
        ELSE IF speed < 0 THEN <<Write("fwd", 0), Write("rev", duty)>>
        ELSE <<Write("fwd", 0), Write("rev", 0)>>

\* The duty_u16 calls of one set_motor(fwd_pin, rev_pin, speed), in order.
set_motor(P, speed0) ==
    LET speed == Clamp(speed0)
        duty  == Duty(P, speed)
    IN  IF speed > 0 THEN <<Write("fwd", duty), Write("rev", 0)>>
        ELSE IF speed < 0 THEN <<Write("fwd", 0), Write("rev", duty)>>
        ELSE <<Write("fwd", 0), Write("rev", 0)>>

(***************************************************************************)
(* The pins and the gaits.  A gait is the (left_speed, right_speed) pair   *)
(* it passes to move.                                                      *)
(***************************************************************************)
Pins == {"left_fwd", "left_rev", "right_fwd", "right_rev"}

\* A faulty variant of self.motors: one output left out of the list.
motors_short == <<"left_fwd", "left_rev", "right_rev">>

\* self.motors
motors == <<"left_fwd", "left_rev", "right_fwd", "right_rev">>

\* The pin objects move hands to set_motor for each wheel.
PinOf(side, which) ==
    IF side = "left"
    THEN (IF which = "fwd" THEN "left_fwd" ELSE "left_rev")
    ELSE (IF which = "fwd" THEN "right_fwd" ELSE "right_rev")

\* int(speed * turn_ratio); turn_ratio is the float nearest to ratio[1] / ratio[2].
int_scale(P, speed, ratio) ==
    IntOfFloat(FloatMulInt(P, speed, ToFloat(P, ratio[1], ratio[2])))

forward(speed) == <<speed, speed>>

backward(speed) == <<-speed, -speed>>

turn_left(speed) == <<0, speed>>

turn_right(speed) == <<speed, 0>>

turn_left_forward(speed) == <<0, speed>>

turn_right_forward(speed) == <<speed, 0>>

turn_left_reverse(speed) == <<0, -speed>>

turn_right_reverse(speed) == <<-speed, 0>>

\* A faulty variant of spin_left: the left wheel not reversed.
spin_left_same(speed) == <<speed, speed>>

spin_left(speed) == <<-speed, speed>>

spin_right(speed) == <<speed, -speed>>

pivot_left(speed) == <<0, speed>>

pivot_right(speed) == <<speed, 0>>

arc_left(P, speed, ratio) == <<int_scale(P, speed, ratio), speed>>

arc_right(P, speed, ratio) == <<speed, int_scale(P, speed, ratio)>>

arc_left_reverse(P, speed, ratio) == <<int_scale(P, -speed, ratio), -speed>>

arc_right_reverse(P, speed, ratio) == <<-speed, int_scale(P, -speed, ratio)>>

FrontGaits == {"forward", "backward", "turn_left", "turn_right", "spin_left",
               "spin_right", "pivot_left", "pivot_right"}

RearGaits == {"forward", "backward", "turn_left_forward", "turn_right_forward",
              "turn_left_reverse", "turn_right_reverse", "spin_left", "spin_right"}

FrontArcs == {"arc_left", "arc_right"}

RearArcs == {"arc_left", "arc_right", "arc_left_reverse", "arc_right_reverse"}

GaitsOf(cfg) == IF cfg = "front" THEN FrontGaits ELSE RearGaits

ArcsOf(cfg) == IF cfg = "front" THEN FrontArcs ELSE RearArcs

GaitOps == FrontGaits \cup RearGaits \cup RearArcs

\* A call of a controller method: its name and its arguments (a ratio-free gait
\* carries NoRatio; move carries its two speeds in moveArgs).
NoRatio == <<0, 1>>

NoArgs == <<0, 0>>

G(op, speed) == [op |-> op, speed |-> speed, ratio |-> NoRatio]

A(op, speed, num, den) == [op |-> op, speed |-> speed, ratio |-> <<num, den>>]

StopCall == G("stop", 0)

MoveCall == G("move", 0)

InitCall == G("__init__", 0)

Sleep == G("sleep", 0)

\* The pair a gait call passes to move.
GaitArgs(P, c) ==
    CASE c.op = "forward"            -> forward(c.speed)
      [] c.op = "backward"           -> backward(c.speed)
      [] c.op = "turn_left"          -> turn_left(c.speed)
      [] c.op = "turn_right"         -> turn_right(c.speed)
      [] c.op = "turn_left_forward"  -> turn_left_forward(c.speed)
      [] c.op = "turn_right_forward" -> turn_right_forward(c.speed)
      [] c.op = "turn_left_reverse"  -> turn_left_reverse(c.speed)
      [] c.op = "turn_right_reverse" -> turn_right_reverse(c.speed)
      [] c.op = "spin_left"          -> spin_left(c.speed)
      [] c.op = "spin_right"         -> spin_right(c.speed)
      [] c.op = "pivot_left"         -> pivot_left(c.speed)
      [] c.op = "pivot_right"        -> pivot_right(c.speed)
      [] c.op = "arc_left"           -> arc_left(P, c.speed, c.ratio)
      [] c.op = "arc_right"          -> arc_right(P, c.speed, c.ratio)
      [] c.op = "arc_left_reverse"   -> arc_left_reverse(P, c.speed, c.ratio)
      [] c.op = "arc_right_reverse"  -> arc_right_reverse(P, c.speed, c.ratio)

(***************************************************************************)
(* The demo routines: the statements of each try block, in order (prints   *)
(* left out: they touch no pin).                                           *)
(***************************************************************************)
\* A gait, a pause, a stop, a pause.
Leg(c) == <<c, Sleep, StopCall, Sleep>>

RECURSIVE Repeat(_, _)
Repeat(body, n) == IF n = 0 THEN <<>> ELSE body \o Repeat(body, n - 1)

\* range(3)
LoopCount == 3

front_demo ==
    Leg(G("forward", 60)) \o Leg(G("backward", 60)) \o Leg(G("turn_left", 60))
    \o Leg(G("turn_right", 60)) \o Leg(G("spin_left", 50)) \o Leg(G("spin_right", 50))
    \o Leg(A("arc_left", 60, 6, 10)) \o Leg(A("arc_right", 60, 3, 10))

figure_eight ==
    <<A("arc_right", 60, 4, 10), Sleep, A("arc_left", 60, 4, 10), Sleep, StopCall>>

obstacle_avoidance_demo ==
    Repeat(Leg(G("forward", 60)) \o Leg(G("spin_right", 50)), LoopCount) \o <<StopCall>>

rear_demo ==
    Leg(G("forward", 60)) \o Leg(G("backward", 60)) \o Leg(G("turn_left_forward", 60))
    \o Leg(G("turn_right_forward", 60)) \o Leg(G("turn_left_reverse", 60))
    \o Leg(G("turn_right_reverse", 60)) \o Leg(G("spin_left", 50))
    \o Leg(G("spin_right", 50)) \o Leg(A("arc_left", 60, 4, 10))
    \o Leg(A("arc_left_reverse", 60, 3, 10))

parallel_parking_demo ==
    Leg(G("forward", 50)) \o Leg(G("turn_right_reverse", 50))
    \o Leg(G("turn_left_reverse", 50)) \o <<G("backward", 50), Sleep, StopCall>>

three_point_turn ==
    Leg(A("arc_right", 50, 2, 10)) \o Leg(A("arc_left_reverse", 50, 2, 10))
    \o <<G("forward", 50), Sleep, StopCall>>

navigation_pattern ==
    Repeat(Leg(G("forward", 60)) \o Leg(G("turn_right_reverse", 55)), LoopCount)
    \o <<StopCall>>

\* A faulty variant of the except block: the interrupt swallowed, no stop.
except_pass == <<>>

\* except KeyboardInterrupt: print(...); robot.stop()
except_handler == <<StopCall>>

FrontRoutines == {"demo", "figure_eight", "obstacle_avoidance_demo"}

RearRoutines == {"demo", "parallel_parking_demo", "three_point_turn", "navigation_pattern"}

RoutinesOf(cfg) == IF cfg = "front" THEN FrontRoutines ELSE RearRoutines

TryBlock(cfg, rt) ==
    CASE rt = "demo"                    -> (IF cfg = "front" THEN front_demo ELSE rear_demo)
      [] rt = "figure_eight"            -> figure_eight
      [] rt = "obstacle_avoidance_demo" -> obstacle_avoidance_demo
      [] rt = "parallel_parking_demo"   -> parallel_parking_demo
      [] rt = "three_point_turn"        -> three_point_turn
      [] rt = "navigation_pattern"      -> navigation_pattern
      [] OTHER                               -> <<>>

(***************************************************************************)
(* The inputs of a caller that uses the controller directly: sampled       *)
(* speeds, turn ratios (num / den as written in a float literal) and move  *)
(* pairs.                                                                  *)
(***************************************************************************)
LandmarkSpeeds == {1, 60}

Speeds == {s \in (-MaxSpeed)..MaxSpeed : s % SpeedStep = 0} \cup LandmarkSpeeds

ArcSpeeds == {60, 100}

Ratios == {<<1, 2>>, <<3, 10>>, <<29, 100>>, <<53, 100>>, <<2, 1>>, <<-1, 2>>}

MovePairs == (Speeds \X Speeds) \cup {<<80, 80>>, <<-20, 0>>}

CallerCalls(cfg) ==
    {G(op, sp) : op \in GaitsOf(cfg), sp \in Speeds}
    \cup {A(op, sp, r[1], r[2]) : op \in ArcsOf(cfg), sp \in ArcSpeeds, r \in Ratios}

Range(seq) == {seq[i] : i \in 1..Len(seq)}

ScriptCalls ==
    UNION {Range(TryBlock(cfg, rt)) : cfg \in {"front", "rear"},
                                      rt \in FrontRoutines \cup RearRoutines}

GaitCalls ==
    {c \in CallerCalls("front") \cup CallerCalls("rear") \cup ScriptCalls : c.op \in GaitOps}

\* The tables below hold the values of GaitArgs and set_motor for the inputs above:
\* what the program computes at each call, computed once.
ArgsTab == [P \in FloatFormats |-> [c \in GaitCalls |-> GaitArgs(P, c)]]

WheelSpeeds ==
    {ArgsTab[P][c][i] : P \in FloatFormats, c \in GaitCalls, i \in {1, 2}}
    \cup {p[i] : p \in MovePairs, i \in {1, 2}}

MotorTab == [P \in FloatFormats |-> [w \in WheelSpeeds |-> set_motor(P, w)]]

\* What the PWM outputs may hold when the constructor acquires them.
PowerOnDuties == {0, max_speed}

(***************************************************************************)
(* State.                                                                  *)
(***************************************************************************)
VARIABLES
    config,     \* "front" (FrontDriveRobot) or "rear" (RearDriveRobot)
    routine,    \* who drives the robot: "caller", or one of the demo routines
    floatBits,  \* the significand width of the build's floats
    phase,      \* "construct", "run" (the try block), "except", "done", "aborted"
    ip,         \* the next statement of the running block
    pc,         \* the position inside the running controller method
    idx,        \* the index of a `for motor in self.motors` loop
    call,       \* the controller method being run (or last run)
    moveArgs,   \* move's left_speed, right_speed
    pins,       \* the duty of each PWM output
    freq,       \* the frequency of each PWM output
    entryPins,  \* pins when the running method was entered
    lastWrite,  \* the last duty_u16 call: pin, value and the method that made it
    written     \* the pins written since the running method was entered

vars == <<config, routine, floatBits, phase, ip, pc, idx, call, moveArgs, pins,
          freq, entryPins, lastWrite, written>>

build == <<config, routine, floatBits>>

NoWrite == [pin |-> "none", value |-> 0, site |-> "none"]

\* robot = FrontDriveRobot() / RearDriveRobot(): the PWM objects are acquired and
\* the constructor is about to run its frequency loop.
Init ==
    /\ config \in {"front", "rear"}
    /\ routine \in {"caller"} \cup RoutinesOf(config)
    /\ floatBits \in FloatFormats
    /\ phase = "construct"
    /\ ip = 1
    /\ pc = "freq"
    /\ idx = 1
    /\ call = InitCall
    /\ moveArgs = NoArgs
    /\ pins \in [Pins -> PowerOnDuties]
    /\ freq = [p \in Pins |-> 0]
    /\ entryPins = pins
    /\ lastWrite = NoWrite
    /\ written = {}

(***************************************************************************)
(* The constructor.                                                        *)
(***************************************************************************)
\* A faulty variant of __init__: no final self.stop().
ctor_no_stop == "idle"

\* What __init__ does after the frequency loop: self.stop().
ctor_tail == "stop"

\* for motor in self.motors: motor.freq(1000)
CtorFreq ==
    /\ pc = "freq"
    /\ freq' = [freq EXCEPT ![motors[idx]] = PwmFreq]
    /\ IF idx < Len(motors)
       THEN idx' = idx + 1 /\ pc' = pc /\ phase' = phase
       ELSE /\ idx' = 1
            /\ pc' = ctor_tail
            /\ phase' = IF ctor_tail = "stop" THEN phase ELSE "run"
    /\ UNCHANGED <<build, ip, call, moveArgs, pins, entryPins, lastWrite, written>>

(***************************************************************************)
(* stop and set_motor, one duty_u16 call per step.                         *)
(***************************************************************************)
\* The phase a method returns to.
AfterReturn ==
    IF phase = "construct" THEN "run" ELSE phase

\* for motor in self.motors: motor.duty_u16(0)
StopWrite ==
    /\ pc = "stop"
    /\ idx <= Len(motors)
    /\ pins' = [pins EXCEPT ![motors[idx]] = 0]
    /\ lastWrite' = [pin |-> motors[idx], value |-> 0, site |-> "stop"]
    /\ written' = written \cup {motors[idx]}
    /\ IF idx < Len(motors)
       THEN idx' = idx + 1 /\ pc' = pc /\ phase' = phase
       ELSE idx' = 1 /\ pc' = "idle" /\ phase' = AfterReturn
    /\ UNCHANGED <<build, ip, call, moveArgs, freq, entryPins>>

\* The k-th duty_u16 call of set_motor for one wheel, then the next position.
SetMotorWrite(side, k, next) ==
    \E w \in {MotorTab[floatBits][IF side = "left" THEN moveArgs[1] ELSE moveArgs[2]][k]} :
        \E pin \in {PinOf(side, w.which)} :
            /\ pins' = [pins EXCEPT ![pin] = w.value]
            /\ lastWrite' = [pin |-> pin, value |-> w.value, site |-> "set_motor"]
            /\ written' = written \cup {pin}
            /\ pc' = next
            /\ UNCHANGED <<build, phase, ip, idx, call, moveArgs, freq, entryPins>>

\* move: set_motor(left_fwd, left_rev, left_speed), then
\* set_motor(right_fwd, right_rev, right_speed).
MoveStep ==
    \/ pc = "left1"  /\ SetMotorWrite("left", 1, "left2")
    \/ pc = "left2"  /\ SetMotorWrite("left", 2, "right1")
    \/ pc = "right1" /\ SetMotorWrite("right", 1, "right2")
    \/ pc = "right2" /\ SetMotorWrite("right", 2, "idle")

(***************************************************************************)
(* Calls.                                                                  *)
(***************************************************************************)
EnterMove(c, args) ==
    /\ call' = c
    /\ moveArgs' = args
    /\ pc' = "left1"
    /\ entryPins' = pins
    /\ written' = {}
    /\ UNCHANGED <<build, phase, idx, pins, freq, lastWrite>>

EnterStop ==
    /\ call' = StopCall
    /\ moveArgs' = NoArgs
    /\ pc' = "stop"
    /\ idx' = 1
    /\ entryPins' = pins
    /\ written' = {}
    /\ UNCHANGED <<build, phase, pins, freq, lastWrite>>

\* robot.<gait>(...), robot.move(l, r), robot.stop() by a caller of the class.
CallGait ==
    /\ routine = "caller" /\ phase = "run" /\ pc = "idle"
    /\ \E c \in CallerCalls(config) : EnterMove(c, ArgsTab[floatBits][c])
    /\ UNCHANGED ip

CallMove ==
    /\ routine = "caller" /\ phase = "run" /\ pc = "idle"
    /\ \E p \in MovePairs : EnterMove(MoveCall, p)
    /\ UNCHANGED ip

CallStop ==
    /\ routine = "caller" /\ phase = "run" /\ pc = "idle"
    /\ EnterStop
    /\ UNCHANGED ip

(***************************************************************************)
(* The demo routines and KeyboardInterrupt.                                *)
(***************************************************************************)
Block == IF phase = "except" THEN except_handler ELSE TryBlock(config, routine)

\* The next statement of the try block, or of the except block.
Statement ==
    /\ routine # "caller" /\ phase \in {"run", "except"} /\ pc = "idle"
    /\ ip <= Len(Block)
    /\ ip' = ip + 1
    /\ LET c == Block[ip]
       IN  \/ c.op = "sleep" /\ UNCHANGED <<build, phase, pc, idx, call, moveArgs,
                                            pins, freq, entryPins, lastWrite, written>>
           \/ c.op = "stop" /\ EnterStop
           \/ c.op \in GaitOps /\ EnterMove(c, ArgsTab[floatBits][c])

\* The block is over: the routine returns.
Return ==
    /\ routine # "caller" /\ phase \in {"run", "except"} /\ pc = "idle"
    /\ ip > Len(Block)
    /\ phase' = "done"
    /\ UNCHANGED <<build, ip, pc, idx, call, moveArgs, pins, freq, entryPins,
                   lastWrite, written>>

\* KeyboardInterrupt inside the try block, wherever it stands: the running method
\* is abandoned where it is and the except block starts.
Interrupt ==
    /\ routine # "caller" /\ phase = "run"
    /\ phase' = "except"
    /\ ip' = 1
    /\ pc' = "idle"
    /\ idx' = 1
    /\ UNCHANGED <<build, call, moveArgs, pins, freq, entryPins, lastWrite, written>>

\* KeyboardInterrupt outside the try block (in the constructor, or in the except
\* block): nothing catches it, the routine ends with the exception.
InterruptOutside ==
    /\ routine # "caller" /\ phase \in {"construct", "except"}
    /\ phase' = "aborted"
    /\ pc' = "idle"
    /\ idx' = 1
    /\ UNCHANGED <<build, ip, call, moveArgs, pins, freq, entryPins, lastWrite, written>>

Next ==
    \/ CtorFreq
    \/ StopWrite
    \/ MoveStep
    \/ CallGait
    \/ CallMove
    \/ CallStop
    \/ Statement
    \/ Return
    \/ Interrupt
    \/ InterruptOutside

Spec == Init /\ [][Next]_vars

(***************************************************************************)
(* Vocabulary of the properties.                                           *)
(***************************************************************************)
MoveOps == GaitOps \cup {"move"}

Constructed == phase \in {"run", "except", "done"}

\* move (called directly or by a gait) has returned: both set_motor calls ran.
MoveDone == phase = "run" /\ pc = "idle" /\ call.op \in MoveOps

\* The set_motor call for the left wheel has returned.
LeftDone == call.op \in MoveOps /\ (pc \in {"right1", "right2"} \/ MoveDone)

\* stop() has returned (an interrupt leaves the except block at its first statement).
StopDone ==
    /\ call = StopCall /\ pc = "idle"
    /\ phase \in {"run", "done"} \/ (phase = "except" /\ ip > 1)

AllZero == \A p \in Pins : pins[p] = 0

Moving == \E p \in Pins : pins[p] # 0

\* The duty the contract gives speed s: floor(|c| * 65535 / 100), c = s clamped.
ContractDuty(s) ==
    LET c == IF s > 100 THEN 100 ELSE IF s < -100 THEN -100 ELSE s
    IN  ((IF c < 0 THEN -c ELSE c) * 65535) \div 100

\* The two duties the contract gives one motor after set_motor(fwd, rev, s).
ContractMotor(s) ==
    [fwd |-> IF s > 0 THEN ContractDuty(s) ELSE 0,
     rev |-> IF s < 0 THEN ContractDuty(s) ELSE 0]

ContractPins(l, r) ==
    [p \in Pins |->
        CASE p = "left_fwd"  -> ContractMotor(l).fwd
          [] p = "left_rev"  -> ContractMotor(l).rev
          [] p = "right_fwd" -> ContractMotor(r).fwd
          [] p = "right_rev" -> ContractMotor(r).rev]

\* The (left, right) pair of the gait table.
GaitTable(op, speed) ==
    CASE op = "forward"                                          -> <<speed, speed>>
      [] op = "backward"                                         -> <<-speed, -speed>>
      [] op \in {"turn_left", "turn_left_forward", "pivot_left"}    -> <<0, speed>>
      [] op \in {"turn_right", "turn_right_forward", "pivot_right"} -> <<speed, 0>>
      [] op = "spin_left"                                        -> <<-speed, speed>>
      [] op = "spin_right"                                       -> <<speed, -speed>>
      [] op = "turn_left_reverse"                                -> <<0, -speed>>
      [] op = "turn_right_reverse"                               -> <<-speed, 0>>

\* speed * num / den truncated toward zero, on the rationals (den > 0).
TruncScale(speed, ratio) ==
    LET n == speed * ratio[1]
    IN  IF n < 0 THEN -((-n) \div ratio[2]) ELSE n \div ratio[2]

ArcTable(op, speed, ratio) ==
    CASE op = "arc_left"          -> <<TruncScale(speed, ratio), speed>>
      [] op = "arc_right"         -> <<speed, TruncScale(speed, ratio)>>
      [] op = "arc_left_reverse"  -> <<-TruncScale(speed, ratio), -speed>>
      [] op = "arc_right_reverse" -> <<-speed, -TruncScale(speed, ratio)>>

\* The pins after the writes ws of one set_motor call on the wheel `side`.
AfterWrites(base, side, ws) ==
    [p \in Pins |->
        IF p = PinOf(side, ws[2].which) THEN ws[2].value
        ELSE IF p = PinOf(side, ws[1].which) THEN ws[1].value
        ELSE base[p]]

\* The pins after move(l, r) alone, on a freshly constructed robot.
MoveAlone(P, l, r) ==
    AfterWrites(AfterWrites([p \in Pins |-> 0], "left", MotorTab[P][l]),
                "right", MotorTab[P][r])

(***************************************************************************)
(* The properties.                                                         *)
(***************************************************************************)
\* C1: after construction, at every point of any sequence of move, gait and stop
\* calls, the points between the two pin writes of one set_motor call included,
\* at most one of a motor's forward and reverse duties is non-zero.
C1_ExclusiveDrive ==
    Constructed =>
        /\ ~(pins["left_fwd"] # 0 /\ pins["left_rev"] # 0)
        /\ ~(pins["right_fwd"] # 0 /\ pins["right_rev"] # 0)

\* C2: when set_motor(fwd, rev, s) returns, for every integer s and every prior
\* pin state, with c = s clamped to [-100, 100] and d = floor(|c| * 65535 / 100):
\* c > 0 gives (d, 0), c < 0 gives (0, d), c = 0 gives (0, 0), and both pins
\* were written by the call.
C2_SetMotorPostcondition ==
    /\ LeftDone =>
        /\ pins["left_fwd"] = ContractMotor(moveArgs[1]).fwd
        /\ pins["left_rev"] = ContractMotor(moveArgs[1]).rev
        /\ {"left_fwd", "left_rev"} \subseteq written
    /\ MoveDone =>
        /\ pins["right_fwd"] = ContractMotor(moveArgs[2]).fwd
        /\ pins["right_rev"] = ContractMotor(moveArgs[2]).rev
        /\ written = Pins

\* A set_motor call with a speed above the clamp, on a motor that was driven in
\* reverse, has returned with the full forward duty.
C2_Witness ==
    /\ LeftDone /\ moveArgs[1] > 100
    /\ entryPins["left_rev"] # 0
    /\ pins["left_fwd"] = 65535 /\ pins["left_rev"] = 0

\* C3: from every reachable pin state, when stop() returns all four outputs have
\* duty 0, and every write stop() makes is its own direct write of 0, none made
\* through set_motor.
C3_StopZeroesAll ==
    /\ StopDone => AllZero /\ written = Pins
    /\ (call = StopCall /\ written # {}) =>
            lastWrite.site = "stop" /\ lastWrite.value = 0

\* stop() called by a caller has returned on a robot whose four pins were not all
\* idle when it was entered.
C3_Witness ==
    /\ StopDone /\ routine = "caller"
    /\ entryPins["left_rev"] # 0 /\ entryPins["right_fwd"] # 0
    /\ AllZero

\* C4: whatever the outputs hold when acquired, the constructor returns with all
\* four duties 0, no move or gait runs before it returns, and a non-zero duty is
\* only ever written by set_motor, that is by a move or gait call.
C4_ConstructorStops ==
    /\ phase = "construct" =>
            /\ pc \in {"freq", "stop"}
            /\ call = InitCall
            /\ lastWrite.value = 0 /\ lastWrite.site \in {"none", "stop"}
    /\ (Constructed /\ call = InitCall) => AllZero /\ pc = "idle"
    /\ lastWrite.value # 0 => lastWrite.site = "set_motor" /\ phase # "construct"

\* The constructor has returned on outputs that all held a full duty.
C4_Witness ==
    /\ phase = "run" /\ call = InitCall
    /\ \A p \in Pins : entryPins[p] = 65535 /\ freq[p] = 1000
    /\ AllZero

\* C5: every ratio-free gait passes to move exactly the pair of the gait table,
\* and the pins it leaves are those of move(left, right) for that pair.
C5_GaitTable ==
    (call.op \in FrontGaits \cup RearGaits) =>
        /\ moveArgs = GaitTable(call.op, call.speed)
        /\ MoveDone =>
            pins = ContractPins(GaitTable(call.op, call.speed)[1],
                                GaitTable(call.op, call.speed)[2])

\* spin_left(50) has returned with the left wheel in reverse and the right wheel
\* forward.
C5_Witness ==
    /\ MoveDone /\ call = G("spin_left", 50)
    /\ pins["left_rev"] = 32767 /\ pins["right_fwd"] = 32767
    /\ pins["left_fwd"] = 0 /\ pins["right_rev"] = 0

\* C6: with t = speed * r truncated toward zero, r a rational: arc_left passes
\* (t, speed) to move, arc_right (speed, t), arc_left_reverse (-t, -speed) and
\* arc_right_reverse (-speed, -t).
C6_ArcTable ==
    (call.op \in RearArcs) => moveArgs = ArcTable(call.op, call.speed, call.ratio)

\* C7: the pins after a completed move(l, r) depend on (l, r) only: they are
\* those of move(l, r) alone, whatever state the call started from.
C7_MoveOverwrites ==
    MoveDone => pins = MoveAlone(floatBits, moveArgs[1], moveArgs[2])

\* move(-20, 0) has returned on a robot that move(80, 80) had left running.
C7_Witness ==
    /\ MoveDone /\ call = MoveCall /\ moveArgs = <<-20, 0>>
    /\ entryPins["left_fwd"] = 52428 /\ entryPins["right_fwd"] = 52428
    /\ pins["left_rev"] = 13107 /\ pins["left_fwd"] = 0
    /\ pins["right_fwd"] = 0 /\ pins["right_rev"] = 0

\* C8 (as stated): every gait call with a speed magnitude in 0..100 leaves the
\* controller MOVING, and every stop() leaves it STOPPED.
C8_GaitAlwaysMoving ==
    /\ (MoveDone /\ call.op \in GaitOps /\ call.speed \in -100..100) => Moving
    /\ StopDone => ~Moving

\* C8 (amended): every gait call with a speed magnitude in 1..100 leaves the
\* controller MOVING, a gait call with speed 0 leaves it STOPPED, and every
\* stop() leaves it STOPPED.
C8_GaitMovingUnlessZero ==
    /\ (MoveDone /\ call.op \in GaitOps /\ call.speed \in -100..100) =>
            (Moving <=> call.speed # 0)
    /\ StopDone => ~Moving

\* A gait with the smallest non-zero speed has returned and a wheel turns.
C8_Witness ==
    /\ MoveDone /\ call.op \in GaitOps /\ call.speed = 1
    /\ Moving

\* C9: in every demo routine, after a KeyboardInterrupt inside the try block the
\* only controller operation run is stop(), entered before any other pin write,
\* and a routine that returns, interrupted or not, returns with all four duties 0.
C9_StopOnInterrupt ==
    /\ phase = "except" =>
            /\ pc \in {"idle", "stop"}
            /\ (pc = "stop" \/ ip > 1) => call = StopCall
            /\ (ip > 1 /\ written # {}) => lastWrite.site = "stop"
    /\ phase = "done" => AllZero /\ StopDone

\* obstacle_avoidance_demo has returned after an interrupt that struck a gait
\* which had driven the left wheel only.
C9_Witness ==
    /\ phase = "done" /\ routine = "obstacle_avoidance_demo" /\ ip = 2
    /\ entryPins["left_fwd"] # 0
    /\ entryPins["right_fwd"] = 0 /\ entryPins["right_rev"] = 0
    /\ AllZero

\* C10: every value written to a PWM output lies in 0..65535, for every speed
\* and every turn ratio, those that take a wheel speed out of [-100, 100]
\* included.
C10_DutyInRange ==
    /\ lastWrite.value \in 0..65535
    /\ \A p \in Pins : pins[p] \in 0..65535

\* arc_left(100, 2) has passed 200 to move and the left wheel got the full duty.
C10_Witness ==
    /\ call = A("arc_left", 100, 2, 1) /\ moveArgs = <<200, 100>>
    /\ lastWrite = [pin |-> "left_fwd", value |-> 65535, site |-> "set_motor"]

====
